---- MODULE Spec2Model ----
(***************************************************************************)
(* ts-testdoc: discovery of @example blocks in JSDoc comments (parser.ts), *)
(* their isolated sequential execution (runner.ts) and the command line    *)
(* driver (cli.ts).                                                        *)
(*                                                                         *)
(* Conventions.  JavaScript arrays are 0-based, sequences here are 1-based:*)
(* an index k of the code is k + 1 here, and findIndex's "not found" (-1)  *)
(* is 0.  An optional value (undefined, null, NaN) is the empty sequence   *)
(* <<>> and a present value v is <<v>>.                                    *)
(***************************************************************************)
EXTENDS Integers, Sequences, FiniteSets, TLC

\* ------------------------------------------------------------------ bounds

\* longest argument vector given to the command line
MaxArgs == 3
\* longest example body, in lines, given to extractExpectedOutput
MaxLines == 3
\* most JSDoc comments in a source text given to parseFile
MaxComments == 3
\* most removals of a temporary directory that fail in one run
MaxCleanupFailures == 1

\* ------------------------------------------------------------- optionals

Undefined == <<>>

Some(v) == <<v>>

\* left ?? right
Coalesce(left, right) == IF left = Undefined THEN right ELSE left[1]

\* ------------------------------------------------- Expectation Annotator

\* A line of text is a sequence of lexemes: " " is one white space character,
\* "//" the comment opener, "=>", "->" and "output:" the three annotation
\* markers, "*" the JSDoc continuation marker, anything else a word.
IsSpace(t) == t = " "

IsArrow(t) == t \in {"=>", "->", "output:"}

\* \s* from position p: the first position at or after p that is no white space
RECURSIVE SkipSpaces(_, _)
SkipSpaces(line, p) ==
    IF p <= Len(line) /\ IsSpace(line[p]) THEN SkipSpaces(line, p + 1) ELSE p

\* Where the capture group (.+) starts when /\/\/\s*(?:=>|->|output:)\s*(.+)$/
\* is tried with its "//" at position s, or 0 when the attempt fails there.
\* The second \s* is greedy and gives back one white space when it would
\* otherwise leave nothing for (.+).
CaptureStartAt(line, s) ==
    IF s > Len(line) \/ line[s] # "//" THEN 0
    ELSE LET a == SkipSpaces(line, s + 1) IN
         IF a > Len(line) \/ ~IsArrow(line[a]) THEN 0
         ELSE LET c == SkipSpaces(line, a + 1) IN
              IF c <= Len(line) THEN c
              ELSE IF c - 1 > a THEN c - 1
              ELSE 0

\* the leftmost position at which the pattern matches, 0 when it matches nowhere
MatchStart(line) ==
    LET S == {s \in 1..Len(line) : CaptureStartAt(line, s) # 0} IN
    IF S = {} THEN 0 ELSE CHOOSE s \in S : \A r \in S : s <= r

\* String.prototype.trim on a lexeme sequence
RECURSIVE TrimRight(_)
TrimRight(s) ==
    IF s # <<>> /\ IsSpace(s[Len(s)]) THEN TrimRight(SubSeq(s, 1, Len(s) - 1)) ELSE s

Trim(s) == TrimRight(SubSeq(s, SkipSpaces(s, 1), Len(s)))

\* line.match(...): Undefined when the line carries no output annotation,
\* else Some(outputMatch[1].trim())
OutputMatch(line) ==
    IF MatchStart(line) = 0 THEN Undefined
    ELSE Some(Trim(SubSeq(line, CaptureStartAt(line, MatchStart(line)), Len(line))))

\* A plausible variant of the loop body: an annotation is taken only while
\* none has been seen yet.
AnnotateLineFirstWins(acc, line) ==
    IF OutputMatch(line) # Undefined /\ acc.expected = Undefined
    THEN [code |-> Append(acc.code, line), expected |-> OutputMatch(line)]
    ELSE [code |-> Append(acc.code, line), expected |-> acc.expected]

\* one iteration of the loop of extractExpectedOutput
AnnotateLine(acc, line) ==
    IF OutputMatch(line) # Undefined
    THEN [code |-> Append(acc.code, line), expected |-> OutputMatch(line)]
    ELSE [code |-> Append(acc.code, line), expected |-> acc.expected]

RECURSIVE AnnotateFrom(_, _, _)
AnnotateFrom(lines, k, acc) ==
    IF k > Len(lines) THEN acc
    ELSE AnnotateFrom(lines, k + 1, AnnotateLine(acc, lines[k]))

\* extractExpectedOutput(code), the code given as its lines
extractExpectedOutput(lines) ==
    AnnotateFrom(lines, 1, [code |-> <<>>, expected |-> Undefined])

\* ---------------------------------------------------- Example Extractor

\* line.replace(/^\s*\*\s?/, ""): a leading JSDoc marker is removed with the
\* white space before it and at most one white space after it
CleanLine(line) ==
    LET a == SkipSpaces(line, 1) IN
    IF a > Len(line) \/ line[a] # "*" THEN line
    ELSE IF a + 1 <= Len(line) /\ IsSpace(line[a + 1])
         THEN SubSeq(line, a + 2, Len(line))
         ELSE SubSeq(line, a + 1, Len(line))

IsBlank(line) == SkipSpaces(line, 1) > Len(line)

\* .trim() of the joined text: blank lines at both ends go, and so does the
\* white space before the first and after the last remaining character
RECURSIVE DropBlankHead(_)
DropBlankHead(lines) ==
    IF lines # <<>> /\ IsBlank(lines[1]) THEN DropBlankHead(Tail(lines)) ELSE lines

RECURSIVE DropBlankTail(_)
DropBlankTail(lines) ==
    IF lines # <<>> /\ IsBlank(lines[Len(lines)])
    THEN DropBlankTail(SubSeq(lines, 1, Len(lines) - 1))
    ELSE lines

TrimText(lines) ==
    LET body == DropBlankTail(DropBlankHead(lines)) IN
    IF body = <<>> THEN <<>>
    ELSE LET n == Len(body)
             lead == [body EXCEPT ![1] = SubSeq(body[1], SkipSpaces(body[1], 1), Len(body[1]))]
         IN  [lead EXCEPT ![n] = TrimRight(lead[n])]

cleanExampleCode(raw) == TrimText([k \in 1..Len(raw) |-> CleanLine(raw[k])])

\* one pushed entry of extractExamples
ExampleOf(raw) ==
    LET annotated == extractExpectedOutput(cleanExampleCode(raw)) IN
    [code |-> annotated.code, expectedOutput |-> annotated.expected]

\* A comment body is given by the raw interiors of its fenced @example blocks
\* (pattern 1) and of its indented @example blocks (pattern 2), both in
\* occurrence order.  Pattern 2 is tried only when pattern 1 found nothing and
\* skips a block that is empty once cleaned.
extractExamples(comment) ==
    IF comment.fenced # <<>>
    THEN [k \in 1..Len(comment.fenced) |-> ExampleOf(comment.fenced[k])]
    ELSE LET kept == SelectSeq(comment.indented, LAMBDA raw : cleanExampleCode(raw) # <<>>)
         IN  [k \in 1..Len(kept) |-> ExampleOf(kept[k])]

\* ---------------------------------------------------- Comment Extractor

\* A source text is given by its JSDoc comments in source order: the line the
\* comment starts on, the identifier of the declaration that follows it
\* (Undefined when the declaration pattern does not match there) and the body.
extractJSDocComments(source) ==
    [k \in 1..Len(source) |->
        [comment |-> source[k].body,
         line    |-> source[k].line,
         name    |-> IF source[k].owner # Undefined
                     THEN source[k].owner[1]
                     ELSE "anonymous_" \o ToString(source[k].line)]]

\* A plausible variant of the naming: the number of examples of the comment
\* instead of the position of the example.
ExampleNameByCount(name, i, n) ==
    IF n > 1 THEN name \o "_example" \o ToString(n) ELSE name

\* the name of the example at (1-based) position i among the n of a comment
ExampleName(name, i, n) ==
    IF n > 1 THEN name \o "_example" \o ToString(i) ELSE name

\* the examples one comment adds to the list of parseFile
ExamplesOfComment(filePath, c) ==
    LET extracted == extractExamples(c.comment) IN
    [k \in 1..Len(extracted) |->
        [file           |-> filePath,
         line           |-> c.line,
         name           |-> ExampleName(c.name, k, Len(extracted)),
         code           |-> extracted[k].code,
         expectedOutput |-> extracted[k].expectedOutput]]

RECURSIVE ExamplesFrom(_, _, _)
ExamplesFrom(filePath, comments, k) ==
    IF k > Len(comments) THEN <<>>
    ELSE ExamplesOfComment(filePath, comments[k]) \o ExamplesFrom(filePath, comments, k + 1)

\* the try block of parseFile on a text that could be read
ParseSource(filePath, source) ==
    ExamplesFrom(filePath, extractJSDocComments(source), 1)

\* ------------------------------------------------------ the file system

\* the text of a.ts: one comment on `add` with one fenced example
SourceA ==
    << [line  |-> 1,
        owner |-> Some("add"),
        body  |-> [fenced   |-> << << <<" ", "*", " ", "assertEqual(add(2,3),5)">> >> >>,
                   indented |-> <<>>]] >>

\* the text of b.ts: one comment on `max` with two fenced examples, the second
\* with an output annotation
SourceB ==
    << [line  |-> 3,
        owner |-> Some("max"),
        body  |-> [fenced   |-> << << <<" ", "*", " ", "assert(max(1,2)===2)">> >>,
                                   << <<" ", "*", " ", "max(1,2)", " ", "//", " ", "=>", " ", "2">> >> >>,
                   indented |-> <<>>]] >>

\* fs.statSync(p): "file", "dir", or "ENOENT" when it throws
StatSync(p) ==
    IF p \in {"a.ts", "b.ts", "locked.ts", "src/a.ts", "src/locked.ts"} THEN "file"
    ELSE IF p = "src" THEN "dir"
    ELSE "ENOENT"

\* fs.readFileSync(p, "utf-8"): the text, Undefined when it throws (locked.ts
\* exists and cannot be opened)
ReadFileSync(p) ==
    IF p \in {"a.ts", "src/a.ts"} THEN Some(SourceA)
    ELSE IF p = "b.ts" THEN Some(SourceB)
    ELSE Undefined

\* fs.readdirSync(dir, { withFileTypes: true })
ReaddirSync(dir) ==
    IF dir = "src"
    THEN << [name |-> "a.ts",         kind |-> "file"],
            [name |-> "locked.ts",    kind |-> "file"],
            [name |-> "node_modules", kind |-> "dir"],
            [name |-> "README.md",    kind |-> "file"] >>
    ELSE <<>>

\* entry.name.startsWith(".")
IsHidden(name) == name \in {".git", ".ts-testdoc"}

\* /\.(ts|tsx|js|jsx|mts|mjs)$/.test(name)
HasSourceExtension(name) == name \in {"a.ts", "b.ts", "locked.ts", "gone.ts"}

PathJoin(dir, name) == dir \o "/" \o name

RECURSIVE findSourceFiles(_)
RECURSIVE FilesFrom(_, _, _)
FilesFrom(dir, entries, k) ==
    IF k > Len(entries) THEN <<>>
    ELSE LET e == entries[k]
             here == IF e.kind = "dir" /\ ~IsHidden(e.name) /\ e.name # "node_modules"
                     THEN findSourceFiles(PathJoin(dir, e.name))
                     ELSE IF e.kind = "file" /\ HasSourceExtension(e.name)
                          THEN << PathJoin(dir, e.name) >>
                          ELSE <<>>
         IN  here \o FilesFrom(dir, entries, k + 1)

findSourceFiles(dir) == FilesFrom(dir, ReaddirSync(dir), 1)

\* ------------------------------------------------------------- parseFile

parseFile(filePath) ==
    IF ReadFileSync(filePath) = Undefined
    THEN [examples |-> <<>>,
          errors   |-> << "Failed to parse " \o filePath \o ": EACCES" >>]
    ELSE [examples |-> ParseSource(filePath, ReadFileSync(filePath)[1]),
          errors   |-> <<>>]

RECURSIVE ParseAll(_, _, _)
ParseAll(files, k, acc) ==
    IF k > Len(files) THEN acc
    ELSE LET r == parseFile(files[k]) IN
         ParseAll(files, k + 1,
                  [acc EXCEPT !.examples = @ \o r.examples, !.errors = @ \o r.errors])

\* One iteration of the loop of parseFiles; threw records that statSync threw,
\* which ends parseFiles.
ParsePath(acc, p) ==
    IF StatSync(p) = "ENOENT" THEN [acc EXCEPT !.threw = TRUE]
    ELSE ParseAll(IF StatSync(p) = "dir" THEN findSourceFiles(p) ELSE << p >>, 1, acc)

RECURSIVE ParsePathsFrom(_, _, _)
ParsePathsFrom(paths, k, acc) ==
    IF k > Len(paths) \/ acc.threw THEN acc
    ELSE ParsePathsFrom(paths, k + 1, ParsePath(acc, paths[k]))

\* parseFiles(paths): the ParseResult, or threw = TRUE when it throws
parseFiles(paths) ==
    ParsePathsFrom(paths, 1, [examples |-> <<>>, errors |-> <<>>, threw |-> FALSE])

\* ------------------------------------------------------ Unit Synthesizer

\* A path is the sequence of its segments, a path inside a line of code the
\* lexemes ".", "..", "/" and words.  process.cwd():
Cwd == << "proj" >>

IsQuote(t) == t \in {"'", "\""}

\* the lexeme begins with the character "."
StartsWithDot(t) == t \in {".", ".."}

\* path.resolve's walk over the segments of a path, onto the directory dir
RECURSIVE ResolveOnto(_, _, _)
ResolveOnto(dir, segs, k) ==
    IF k > Len(segs) THEN dir
    ELSE IF segs[k] = "." THEN ResolveOnto(dir, segs, k + 1)
    ELSE IF segs[k] = ".."
         THEN ResolveOnto(IF dir = <<>> THEN dir ELSE SubSeq(dir, 1, Len(dir) - 1), segs, k + 1)
         ELSE ResolveOnto(Append(dir, segs[k]), segs, k + 1)

\* path.dirname(path.resolve(sourceFile)), sourceFile relative to the cwd
SourceDir(sourceFile) ==
    LET abs == ResolveOnto(Cwd, sourceFile, 1) IN
    IF abs = <<>> THEN <<>> ELSE SubSeq(abs, 1, Len(abs) - 1)

\* an absolute path written out as lexemes, .replace(/\\/g, "/") applied
RECURSIVE PathLexemes(_, _)
PathLexemes(segs, k) ==
    IF k > Len(segs) THEN <<>>
    ELSE << "/", IF segs[k] = "\\" THEN "/" ELSE segs[k] >> \o PathLexemes(segs, k + 1)

\* path.resolve(sourceDir, relativePath).replace(/\\/g, "/")
ResolvedTarget(sourceDir, target) ==
    LET segs == ResolveOnto(sourceDir, SelectSeq(target, LAMBDA t : t # "/"), 1) IN
    IF segs = <<>> THEN << "/" >> ELSE PathLexemes(segs, 1)

\* [^'"]+ from position p: the first position at or after p that is a quote,
\* Len(line) + 1 when there is none
RECURSIVE SkipToQuote(_, _)
SkipToQuote(line, p) ==
    IF p <= Len(line) /\ ~IsQuote(line[p]) THEN SkipToQuote(line, p + 1) ELSE p

\* /(from\s+['"])(\.[^'"]+)(['"])/ tried with its "from" at position p: the
\* positions of the opening and of the closing quote, << >> when it fails
FromMatchAt(line, p) ==
    IF line[p] # "from" \/ p + 1 > Len(line) \/ ~IsSpace(line[p + 1]) THEN <<>>
    ELSE LET q == SkipSpaces(line, p + 1) IN
         IF q + 1 > Len(line) \/ ~IsQuote(line[q]) \/ ~StartsWithDot(line[q + 1]) THEN <<>>
         ELSE LET e == SkipToQuote(line, q + 1) IN
              IF e > Len(line) THEN <<>>
              ELSE IF e = q + 2 /\ line[q + 1] = "." THEN <<>>
              ELSE << q, e >>

\* line.replace(..., callback) with the g flag, from position p on
RECURSIVE ReplaceFrom(_, _, _)
ReplaceFrom(line, p, sourceDir) ==
    IF p > Len(line) THEN <<>>
    ELSE LET m == FromMatchAt(line, p) IN
         IF m = <<>> THEN << line[p] >> \o ReplaceFrom(line, p + 1, sourceDir)
         ELSE SubSeq(line, p, m[1])
              \o ResolvedTarget(sourceDir, SubSeq(line, m[1] + 1, m[2] - 1))
              \o << line[m[2]] >>
              \o ReplaceFrom(line, m[2] + 1, sourceDir)

\* /^\s*import\s+/.test(line)
IsImportLine(line) ==
    LET a == SkipSpaces(line, 1) IN
    a + 1 <= Len(line) /\ line[a] = "import" /\ IsSpace(line[a + 1])

\* one iteration of the loop of extractImports
SeparateLine(acc, line, sourceDir) ==
    IF IsImportLine(line)
    THEN [acc EXCEPT !.imports = Append(@, ReplaceFrom(line, 1, sourceDir))]
    ELSE [acc EXCEPT !.rest = Append(@, line)]

RECURSIVE SeparateFrom(_, _, _, _)
SeparateFrom(code, k, acc, sourceDir) ==
    IF k > Len(code) THEN acc
    ELSE SeparateFrom(code, k + 1, SeparateLine(acc, code[k], sourceDir), sourceDir)

\* extractImports(code, sourceFile), the code given as its lines
extractImports(code, sourceFile) ==
    SeparateFrom(code, 1, [imports |-> <<>>, rest |-> <<>>], SourceDir(sourceFile))

\* The text of a file as getExportNames sees it: the export statements in
\* text order, a declaration ("decl", with its name) or a list ("list", with
\* its comma separated entries, each the words of the entry).  Undefined when
\* fs.readFileSync throws.
ExportsText(filePath) ==
    IF filePath = << "src", "utils.ts" >>
    THEN Some(<< [kind |-> "decl", name |-> "chunkArray", entries |-> <<>>],
                 [kind |-> "decl", name |-> "pipe", entries |-> <<>>] >>)
    ELSE IF filePath = << "src", "math.ts" >>
    THEN Some(<< [kind |-> "list", name |-> "",
                  entries |-> << << "add", "as", "sum" >>, << "multiply" >>, << "*" >>, <<>> >>],
                 [kind |-> "decl", name |-> "add", entries |-> <<>>] >>)
    ELSE Undefined

\* the first loop of getExportNames: the declared names
DeclaredNames(text) ==
    LET decls == SelectSeq(text, LAMBDA st : st.kind = "decl") IN
    [k \in 1..Len(decls) |-> decls[k].name]

\* e.trim().split(/\s+as\s+/)[0].trim()
EntryName(entry) == IF entry = <<>> THEN "" ELSE entry[1]

\* the names one export list adds: n && !n.includes("*")
ListNames(st) ==
    SelectSeq([k \in 1..Len(st.entries) |-> EntryName(st.entries[k])],
              LAMBDA n : n # "" /\ n # "*")

\* the second loop of getExportNames: the listed names
RECURSIVE ListedNames(_, _)
ListedNames(text, k) ==
    IF k > Len(text) THEN <<>>
    ELSE (IF text[k].kind = "list" THEN ListNames(text[k]) ELSE <<>>)
         \o ListedNames(text, k + 1)

\* [...new Set(names)]: the first occurrence of each name, in order
RECURSIVE Distinct(_, _)
Distinct(names, k) ==
    IF k > Len(names) THEN <<>>
    ELSE (IF \E j \in 1..(k - 1) : names[j] = names[k] THEN <<>> ELSE << names[k] >>)
         \o Distinct(names, k + 1)

getExportNames(filePath) ==
    IF ExportsText(filePath) = Undefined THEN <<>>
    ELSE LET text == ExportsText(filePath)[1] IN
         Distinct(DeclaredNames(text) \o ListedNames(text, 1), 1)

\* The unit wrapExampleCode returns, as the parts of its template: the path
\* of the namespace import, the user imports, the names of the destructuring
\* statement (none: no statement), the functions it declares, the body of
\* __runExample.
UnitOf(ex, separated) ==
    [name        |-> ex.name,
     from        |-> << ex.file, ex.line >>,
     importPath  |-> PathLexemes(ResolveOnto(Cwd, ex.file, 1), 1),
     imports     |-> separated.imports,
     destructure |-> getExportNames(ex.file),
     functions   |-> << "assert", "assertEqual", "__runExample" >>,
     body        |-> [k \in 1..Len(separated.rest) |-> << " ", " " >> \o separated.rest[k]]]

wrapExampleCode(ex) == UnitOf(ex, extractImports(ex.code, ex.file))

\* ------------------------------------------------------------ the state

VARIABLES
    args,       \* process.argv.slice(2)
    pc,         \* where main / runExamples / runExample stands
    exitCode,   \* the status given to process.exit, Undefined while running
    paths,      \* main: the arguments that are paths
    options,    \* main: the RunOptions given to runExamples
    dryRun,     \* main: --dry-run was given
    examples,   \* the DocExamples of parseFiles, the input of runExamples
    errors,     \* the diagnostics of parseFiles
    thrown,     \* the call whose exception left main through its catch handler
    i,          \* runExamples: position of the example of the current iteration
    results,    \* runExamples: the TestResults pushed so far
    cur,        \* runExample: the TestResult it returns, Undefined before
    dotDir,     \* the directory <cwd>/.ts-testdoc exists
    madeDotDir, \* the mkdirSync of the current runExample created .ts-testdoc
    tempDirs,   \* positions of the examples whose tempDir exists
    rmFailed,   \* positions of the examples whose rmSync threw
    child,      \* subprocess of the current runExample: none, failed, running, exited
    childCode,  \* its exit code, Undefined (null) when a signal ended it
    hangs,      \* it runs and never exits by itself
    timer,      \* the timeout timer of spawn is armed
    timedOut,   \* the timer killed it
    live,       \* positions of the examples whose subprocess runs
    settled,    \* the value executeWithTsx's promise resolved with, Undefined before
    lines,      \* extractExpectedOutput: the lines of its argument
    ln,         \* extractExpectedOutput: position of the line of the current iteration
    codeLines,  \* extractExpectedOutput: codeLines
    expected,   \* extractExpectedOutput: expected
    source,     \* parseFile: the text it read, as its JSDoc comments
    cm,         \* parseFile: position of the comment of the current iteration
    origin,     \* parseFile: for each example pushed, the position of its comment
    example,    \* wrapExampleCode: the DocExample given
    sl,         \* extractImports: position of the line of the current iteration
    imports,    \* extractImports: imports
    rest,       \* extractImports: rest
    unit,       \* wrapExampleCode: the text it returns, Undefined before
    spawns      \* runExample: the calls of spawn that returned a subprocess

vars == << args, pc, exitCode, paths, options, dryRun, examples, errors, thrown,
           i, results, cur, dotDir, madeDotDir, tempDirs, rmFailed,
           child, childCode, hangs, timer, timedOut, live, settled,
           lines, ln, codeLines, expected, source, cm, origin,
           example, sl, imports, rest, unit, spawns >>

mainVars == << args, paths, options, dryRun, examples, errors >>

attemptVars == << child, childCode, hangs, timer, timedOut, live, settled, spawns >>

fsVars == << dotDir, madeDotDir, tempDirs, rmFailed >>

annotatorVars == << lines, ln, codeLines, expected >>

parseFileVars == << source, cm, origin >>

synthesizerVars == << example, sl, imports, rest, unit >>

cliVars == << args, exitCode, paths, options, dryRun, errors, thrown >>

runnerVars == << i, results, cur, fsVars, attemptVars >>

\* ------------------------------------------------------------------ cli

Tokens ==
    {"-h", "--dry-run", "--timeout", "0", "a.ts", "b.ts", "gone.ts", "locked.ts", "src"}

SeqsUpTo(S, n) == UNION {[1..k -> S] : k \in 0..n}

Includes(seq, x) == \E k \in 1..Len(seq) : seq[k] = x

\* a.startsWith("-")
StartsWithDash(a) == a \in {"-h", "--help", "-v", "--verbose", "--dry-run", "--timeout"}

NaN == <<>>

\* parseInt(a, 10), a = Undefined for an index past the end of args
ParseInt(a) ==
    IF a = Some("0") THEN Some(0) ELSE NaN

DefaultTimeout == 5000

\* args.findIndex((a) => a === "--timeout"), 0 when there is none
TimeoutIndex(argv) ==
    IF Includes(argv, "--timeout")
    THEN CHOOSE k \in 1..Len(argv) :
            argv[k] = "--timeout" /\ \A j \in 1..(k - 1) : argv[j] # "--timeout"
    ELSE 0

At(argv, k) == IF k \in 1..Len(argv) THEN Some(argv[k]) ELSE Undefined

TimeoutOf(argv) ==
    IF TimeoutIndex(argv) > 0 THEN ParseInt(At(argv, TimeoutIndex(argv) + 1))
    ELSE Some(DefaultTimeout)

RECURSIVE PathsFrom(_, _)
PathsFrom(argv, k) ==
    IF k > Len(argv) THEN <<>>
    ELSE (IF ~StartsWithDash(argv[k])
             /\ (TimeoutIndex(argv) = 0 \/ k # TimeoutIndex(argv) + 1)
          THEN << argv[k] >> ELSE <<>>) \o PathsFrom(argv, k + 1)

PathsOf(argv) == PathsFrom(argv, 1)

WantsHelp(argv) == Len(argv) = 0 \/ Includes(argv, "--help") \/ Includes(argv, "-h")

\* nothing of the command line has happened
CliIdle ==
    /\ exitCode = Undefined
    /\ paths = <<>>
    /\ options = [timeout |-> Undefined]
    /\ dryRun = FALSE
    /\ errors = <<>>
    /\ thrown = "none"

\* nothing of the runner has happened
RunnerIdle ==
    /\ i = 1
    /\ results = <<>>
    /\ cur = Undefined
    /\ madeDotDir = FALSE
    /\ tempDirs = {}
    /\ rmFailed = {}
    /\ child = "none"
    /\ childCode = Undefined
    /\ hangs = FALSE
    /\ timer = FALSE
    /\ timedOut = FALSE
    /\ live = {}
    /\ settled = Undefined
    /\ spawns = 0

AnnotatorIdle ==
    /\ lines = <<>>
    /\ ln = 1
    /\ codeLines = <<>>
    /\ expected = Undefined

ParseFileIdle ==
    /\ source = <<>>
    /\ cm = 1
    /\ origin = <<>>

SynthesizerIdle ==
    /\ example = Undefined
    /\ sl = 1
    /\ imports = <<>>
    /\ rest = <<>>
    /\ unit = Undefined

\* the command line is started with any argument vector, in a project that
\* has or has not been tested before
Init ==
    /\ args \in SeqsUpTo(Tokens, MaxArgs)
    /\ pc = "main"
    /\ examples = <<>>
    /\ dotDir \in BOOLEAN
    /\ CliIdle
    /\ SynthesizerIdle
    /\ RunnerIdle
    /\ AnnotatorIdle
    /\ ParseFileIdle

\* A plausible variant of the exit status for an argument vector without
\* paths: the help case and the missing-paths case exchanged.
ArgsExitSwapped(argv) ==
    IF WantsHelp(argv) THEN Some(1)
    ELSE IF Len(PathsOf(argv)) = 0 THEN Some(0)
    ELSE Undefined

\* the status main exits with before it scans anything, Undefined when it goes on
ArgsExit(argv) ==
    IF WantsHelp(argv) THEN Some(0)
    ELSE IF Len(PathsOf(argv)) = 0 THEN Some(1)
    ELSE Undefined

\* main, up to the call of parseFiles
Main ==
    /\ pc = "main"
    /\ IF ArgsExit(args) # Undefined
       THEN /\ exitCode' = ArgsExit(args)
            /\ pc' = "exited"
            /\ UNCHANGED << paths, options, dryRun >>
       ELSE /\ paths' = PathsOf(args)
            /\ options' = [timeout |-> Some(TimeoutOf(args))]
            /\ dryRun' = Includes(args, "--dry-run")
            /\ pc' = "parse"
            /\ UNCHANGED exitCode
    /\ UNCHANGED << args, examples, errors, thrown, i, results, cur >>
    /\ UNCHANGED << annotatorVars, parseFileVars, synthesizerVars >>
    /\ UNCHANGED fsVars
    /\ UNCHANGED attemptVars

\* main, from the call of parseFiles to the call of runExamples
Scan ==
    /\ pc = "parse"
    /\ LET r == parseFiles(paths) IN
       IF r.threw
       THEN /\ thrown' = "statSync"
            /\ pc' = "rejected"
            /\ UNCHANGED << examples, errors, exitCode >>
       ELSE /\ examples' = r.examples
            /\ errors' = r.errors
            /\ UNCHANGED thrown
            /\ IF Len(r.examples) = 0 \/ dryRun
               THEN exitCode' = Some(0) /\ pc' = "exited"
               ELSE exitCode' = exitCode /\ pc' = "loop"
    /\ UNCHANGED << args, paths, options, dryRun, i, results, cur >>
    /\ UNCHANGED << annotatorVars, parseFileVars, synthesizerVars >>
    /\ UNCHANGED fsVars
    /\ UNCHANGED attemptVars

\* main().catch
MainCatch ==
    /\ pc = "rejected"
    /\ exitCode' = Some(1)
    /\ pc' = "exited"
    /\ UNCHANGED << thrown, i, results, cur >>
    /\ UNCHANGED mainVars
    /\ UNCHANGED << annotatorVars, parseFileVars, synthesizerVars >>
    /\ UNCHANGED fsVars
    /\ UNCHANGED attemptVars

Failed(rs) == SelectSeq(rs, LAMBDA r : ~r.passed)

\* A plausible variant of the final status: the number of failures itself.
ReportExitCount(rs) == Len(Failed(rs))

\* failed > 0 ? 1 : 0
ReportExit(rs) == IF Len(Failed(rs)) > 0 THEN 1 ELSE 0

\* main, after runExamples returned
Report ==
    /\ pc = "returned"
    /\ exitCode' = Some(ReportExit(results))
    /\ pc' = "exited"
    /\ UNCHANGED << thrown, i, results, cur >>
    /\ UNCHANGED mainVars
    /\ UNCHANGED << annotatorVars, parseFileVars, synthesizerVars >>
    /\ UNCHANGED fsVars
    /\ UNCHANGED attemptVars

\* ------------------------------------------------------------- runner

\* options.timeout ?? 5000
TimeoutMs == Coalesce(options.timeout, Some(DefaultTimeout))

\* spawn's validation of its timeout option (child_process: an integer >= 0,
\* else it throws ERR_OUT_OF_RANGE)
ValidTimeout(t) == t # NaN /\ t[1] >= 0

\* runExample: fs.mkdirSync(tempDir, { recursive: true }) succeeds and creates
\* tempDir and, when missing, its parent .ts-testdoc
MkdirOk ==
    /\ pc = "loop"
    /\ i <= Len(examples)
    /\ madeDotDir' = ~dotDir
    /\ dotDir' = TRUE
    /\ tempDirs' = tempDirs \cup {i}
    /\ cur' = Undefined
    /\ child' = "none"
    /\ childCode' = Undefined
    /\ hangs' = FALSE
    /\ timer' = FALSE
    /\ timedOut' = FALSE
    /\ settled' = Undefined
    /\ spawns' = 0
    /\ pc' = "synth"
    /\ UNCHANGED << exitCode, thrown, i, results, rmFailed, live >>
    /\ UNCHANGED mainVars
    /\ UNCHANGED << annotatorVars, parseFileVars, synthesizerVars >>

\* runExample: fs.mkdirSync throws; it stands before the try block, so the
\* promises of runExample and of runExamples reject
MkdirThrows ==
    /\ pc = "loop"
    /\ i <= Len(examples)
    /\ thrown' = "mkdirSync"
    /\ pc' = "rejected"
    /\ UNCHANGED << exitCode, i, results, cur >>
    /\ UNCHANGED mainVars
    /\ UNCHANGED << annotatorVars, parseFileVars, synthesizerVars >>
    /\ UNCHANGED fsVars
    /\ UNCHANGED attemptVars

\* runExamples: the loop is over
ReturnResults ==
    /\ pc = "loop"
    /\ i > Len(examples)
    /\ pc' = "returned"
    /\ UNCHANGED << exitCode, thrown, i, results, cur >>
    /\ UNCHANGED mainVars
    /\ UNCHANGED << annotatorVars, parseFileVars, synthesizerVars >>
    /\ UNCHANGED fsVars
    /\ UNCHANGED attemptVars

\* runExample: wrapExampleCode, then fs.writeFileSync succeeds
WriteOk ==
    /\ pc = "synth"
    /\ pc' = "spawn"
    /\ UNCHANGED << exitCode, thrown, i, results, cur >>
    /\ UNCHANGED mainVars
    /\ UNCHANGED << annotatorVars, parseFileVars, synthesizerVars >>
    /\ UNCHANGED fsVars
    /\ UNCHANGED attemptVars

\* runExample: fs.writeFileSync throws, inside the try block
WriteThrows ==
    /\ pc = "synth"
    /\ pc' = "catch"
    /\ UNCHANGED << exitCode, thrown, i, results, cur >>
    /\ UNCHANGED mainVars
    /\ UNCHANGED << annotatorVars, parseFileVars, synthesizerVars >>
    /\ UNCHANGED fsVars
    /\ UNCHANGED attemptVars

\* executeWithTsx: spawn throws on its options; the executor of the promise
\* throws, the promise rejects and the await in runExample throws
SpawnThrows ==
    /\ pc = "spawn"
    /\ ~ValidTimeout(TimeoutMs)
    /\ pc' = "catch"
    /\ UNCHANGED << exitCode, thrown, i, results, cur >>
    /\ UNCHANGED mainVars
    /\ UNCHANGED << annotatorVars, parseFileVars, synthesizerVars >>
    /\ UNCHANGED fsVars
    /\ UNCHANGED attemptVars

\* executeWithTsx: spawn starts the subprocess; spawn arms its timer only for
\* a timeout > 0
SpawnOk ==
    /\ pc = "spawn"
    /\ ValidTimeout(TimeoutMs)
    /\ child' = "running"
    /\ hangs' \in BOOLEAN
    /\ timer' = (TimeoutMs[1] > 0)
    /\ live' = live \cup {i}
    /\ spawns' = spawns + 1
    /\ pc' = "await"
    /\ UNCHANGED << childCode, timedOut, settled >>
    /\ UNCHANGED << exitCode, thrown, i, results, cur >>
    /\ UNCHANGED mainVars
    /\ UNCHANGED << annotatorVars, parseFileVars, synthesizerVars >>
    /\ UNCHANGED fsVars

\* executeWithTsx: the subprocess could not be started, "error" will be emitted
SpawnFails ==
    /\ pc = "spawn"
    /\ ValidTimeout(TimeoutMs)
    /\ child' = "failed"
    /\ spawns' = spawns + 1
    /\ pc' = "await"
    /\ UNCHANGED << childCode, hangs, timer, timedOut, live, settled >>
    /\ UNCHANGED << exitCode, thrown, i, results, cur >>
    /\ UNCHANGED mainVars
    /\ UNCHANGED << annotatorVars, parseFileVars, synthesizerVars >>
    /\ UNCHANGED fsVars

ExitCodes == {0, 1}

\* the subprocess exits by itself
ChildExit ==
    /\ child = "running"
    /\ ~hangs
    /\ \E c \in ExitCodes : childCode' = Some(c)
    /\ child' = "exited"
    /\ timer' = FALSE
    /\ live' = live \ {i}
    /\ hangs' = FALSE
    /\ UNCHANGED << timedOut, settled, spawns >>
    /\ UNCHANGED << pc, exitCode, thrown, i, results, cur >>
    /\ UNCHANGED mainVars
    /\ UNCHANGED << annotatorVars, parseFileVars, synthesizerVars >>
    /\ UNCHANGED fsVars

\* A plausible variant of the timeout: the wait is given up, the subprocess
\* is left running.
TimeoutAbandons ==
    /\ child = "running"
    /\ timer
    /\ child' = "exited"
    /\ childCode' = Undefined
    /\ timer' = FALSE
    /\ timedOut' = TRUE
    /\ hangs' = FALSE
    /\ UNCHANGED << live, settled, spawns >>
    /\ UNCHANGED << pc, exitCode, thrown, i, results, cur >>
    /\ UNCHANGED mainVars
    /\ UNCHANGED << annotatorVars, parseFileVars, synthesizerVars >>
    /\ UNCHANGED fsVars

\* spawn's timer fires: the subprocess is killed (killSignal), it ends with
\* exit code null
TimeoutKill ==
    /\ child = "running"
    /\ timer
    /\ child' = "exited"
    /\ childCode' = Undefined
    /\ timer' = FALSE
    /\ timedOut' = TRUE
    /\ live' = live \ {i}
    /\ hangs' = FALSE
    /\ UNCHANGED << settled, spawns >>
    /\ UNCHANGED << pc, exitCode, thrown, i, results, cur >>
    /\ UNCHANGED mainVars
    /\ UNCHANGED << annotatorVars, parseFileVars, synthesizerVars >>
    /\ UNCHANGED fsVars

\* a signal from outside ends the subprocess, exit code null
SignalKill ==
    /\ child = "running"
    /\ child' = "exited"
    /\ childCode' = Undefined
    /\ timer' = FALSE
    /\ live' = live \ {i}
    /\ hangs' = FALSE
    /\ UNCHANGED << timedOut, settled, spawns >>
    /\ UNCHANGED << pc, exitCode, thrown, i, results, cur >>
    /\ UNCHANGED mainVars
    /\ UNCHANGED << annotatorVars, parseFileVars, synthesizerVars >>
    /\ UNCHANGED fsVars

\* A plausible variant of the normalisation: null counts as a clean exit.
CloseCodeNullIsZero(code) == Coalesce(code, 0)

\* code ?? 1
CloseCode(code) == Coalesce(code, 1)

\* A plausible variant of the close handler: a subprocess that did not end
\* with exit code 0 is started once more.
OnCloseRetries ==
    /\ pc = "await"
    /\ child = "exited"
    /\ IF CloseCode(childCode) # 0 /\ spawns < 2
       THEN /\ child' = "none"
            /\ childCode' = Undefined
            /\ timedOut' = FALSE
            /\ pc' = "spawn"
            /\ UNCHANGED settled
       ELSE /\ settled' = Some([exitCode |-> CloseCode(childCode)])
            /\ pc' = "resume"
            /\ UNCHANGED << child, childCode, timedOut >>
    /\ UNCHANGED << hangs, timer, live, spawns >>
    /\ UNCHANGED << exitCode, thrown, i, results, cur >>
    /\ UNCHANGED mainVars
    /\ UNCHANGED << annotatorVars, parseFileVars, synthesizerVars >>
    /\ UNCHANGED fsVars

\* child.on("close")
OnClose ==
    /\ pc = "await"
    /\ child = "exited"
    /\ settled' = Some([exitCode |-> CloseCode(childCode)])
    /\ pc' = "resume"
    /\ UNCHANGED << child, childCode, hangs, timer, timedOut, live, spawns >>
    /\ UNCHANGED << exitCode, thrown, i, results, cur >>
    /\ UNCHANGED mainVars
    /\ UNCHANGED << annotatorVars, parseFileVars, synthesizerVars >>
    /\ UNCHANGED fsVars

\* child.on("error")
OnError ==
    /\ pc = "await"
    /\ child = "failed"
    /\ settled' = Some([exitCode |-> 1])
    /\ pc' = "resume"
    /\ UNCHANGED << child, childCode, hangs, timer, timedOut, live, spawns >>
    /\ UNCHANGED << exitCode, thrown, i, results, cur >>
    /\ UNCHANGED mainVars
    /\ UNCHANGED << annotatorVars, parseFileVars, synthesizerVars >>
    /\ UNCHANGED fsVars

\* runExample: the return of the try block
Collect ==
    /\ pc = "resume"
    /\ cur' = Some([example |-> examples[i], passed |-> settled[1].exitCode = 0])
    /\ pc' = "finally"
    /\ UNCHANGED << exitCode, thrown, i, results >>
    /\ UNCHANGED mainVars
    /\ UNCHANGED << annotatorVars, parseFileVars, synthesizerVars >>
    /\ UNCHANGED fsVars
    /\ UNCHANGED attemptVars

\* runExample: the return of the catch block
Catch ==
    /\ pc = "catch"
    /\ cur' = Some([example |-> examples[i], passed |-> FALSE])
    /\ pc' = "finally"
    /\ UNCHANGED << exitCode, thrown, i, results >>
    /\ UNCHANGED mainVars
    /\ UNCHANGED << annotatorVars, parseFileVars, synthesizerVars >>
    /\ UNCHANGED fsVars
    /\ UNCHANGED attemptVars

\* A plausible variant of the cleanup: the file is removed, the directory stays.
RemovedFileOnly(dirs, k) == dirs

\* fs.rmSync(tempDir, { recursive: true })
Removed(dirs, k) == dirs \ {k}

\* runExample: the finally block, rmSync succeeds
CleanupOk ==
    /\ pc = "finally"
    /\ tempDirs' = Removed(tempDirs, i)
    /\ pc' = "push"
    /\ UNCHANGED << dotDir, madeDotDir, rmFailed >>
    /\ UNCHANGED << exitCode, thrown, i, results, cur >>
    /\ UNCHANGED mainVars
    /\ UNCHANGED << annotatorVars, parseFileVars, synthesizerVars >>
    /\ UNCHANGED attemptVars

\* runExample: the finally block, rmSync throws and the error is swallowed
CleanupThrows ==
    /\ pc = "finally"
    /\ Cardinality(rmFailed) < MaxCleanupFailures
    /\ rmFailed' = rmFailed \cup {i}
    /\ pc' = "push"
    /\ UNCHANGED << dotDir, madeDotDir, tempDirs >>
    /\ UNCHANGED << exitCode, thrown, i, results, cur >>
    /\ UNCHANGED mainVars
    /\ UNCHANGED << annotatorVars, parseFileVars, synthesizerVars >>
    /\ UNCHANGED attemptVars

\* A plausible variant of the collection: the result is put in front.
PushedFirst(rs, r) == << r >> \o rs

\* results.push(result)
Pushed(rs, r) == Append(rs, r)

\* runExamples: the await returns, the result is pushed, the loop goes on
Push ==
    /\ pc = "push"
    /\ results' = Pushed(results, cur[1])
    /\ i' = i + 1
    /\ pc' = "loop"
    /\ UNCHANGED << exitCode, thrown, cur >>
    /\ UNCHANGED mainVars
    /\ UNCHANGED << annotatorVars, parseFileVars, synthesizerVars >>
    /\ UNCHANGED fsVars
    /\ UNCHANGED attemptVars

Next ==
    \/ Main
    \/ Scan
    \/ MainCatch
    \/ Report
    \/ MkdirOk
    \/ MkdirThrows
    \/ ReturnResults
    \/ WriteOk
    \/ WriteThrows
    \/ SpawnThrows
    \/ SpawnOk
    \/ SpawnFails
    \/ ChildExit
    \/ TimeoutKill
    \/ SignalKill
    \/ OnClose
    \/ OnError
    \/ Collect
    \/ Catch
    \/ CleanupOk
    \/ CleanupThrows
    \/ Push

Spec == Init /\ [][Next]_vars

TypeOK ==
    /\ pc \in {"main", "parse", "rejected", "exited", "loop", "synth", "spawn", "await",
               "resume", "catch", "finally", "push", "returned"}
    /\ exitCode \in {Undefined, Some(0), Some(1)}
    /\ child \in {"none", "failed", "running", "exited"}
    /\ live \subseteq 1..Len(examples)
    /\ tempDirs \subseteq 1..Len(examples)
    /\ spawns \in Nat

\* ------------------------------------------------- properties: runner

\* runExample has built the TestResult of the current example
HasResult == pc \in {"finally", "push"}

\* C1: the TestResult of an example has passed = TRUE exactly when its
\* subprocess ended by itself with exit code 0; a subprocess that the timeout
\* or a signal killed (exit code null), one that could not be started, and an
\* attempt that never started one, give passed = FALSE.
PassedIffExitZero ==
    HasResult =>
        /\ cur[1].passed <=> (child = "exited" /\ childCode = Some(0))
        /\ (timedOut \/ child = "failed" \/ childCode = Undefined) => ~cur[1].passed

\* a passed example is followed by one the timeout killed, recorded as failed
TimedOutAfterPassed ==
    /\ pc = "push"
    /\ timedOut
    /\ childCode = Undefined
    /\ ~cur[1].passed
    /\ \E k \in 1..Len(results) : results[k].passed

\* C2 as stated: when runExample returns the TestResult, no directory that
\* this execution created is left on the file system.
NoDirectoryOutlivesExecution ==
    pc = "push" => (i \notin tempDirs /\ ~(madeDotDir /\ dotDir))

\* C2 as amended: when runExample returns the TestResult, its tempDir is gone
\* unless rmSync threw, in which case it is still there; the parent directory
\* .ts-testdoc is there in either case.
TempDirRemovedUnlessRmThrew ==
    pc = "push" => (((i \in tempDirs) <=> (i \in rmFailed)) /\ dotDir)

\* an execution that created .ts-testdoc returns with its tempDir removed
ReturnedWithTempDirRemoved ==
    /\ pc = "push"
    /\ i \notin tempDirs
    /\ madeDotDir
    /\ timedOut

\* C3: nothing that fails while one example is processed makes runExample or
\* runExamples reject: the failure is recorded and the batch goes on.
PerExampleFailuresAreLocal == ~(pc = "rejected" /\ thrown = "mkdirSync")

\* the examples before the current one
Earlier == 1..(i - 1)

\* C4 as stated: at most one example has a running subprocess or an existing
\* temporary directory, and every earlier example has its result collected,
\* no subprocess and no temporary directory.
StrictlySequential ==
    /\ Cardinality(live \cup tempDirs) <= 1
    /\ \A j \in Earlier : j <= Len(results) /\ j \notin live /\ j \notin tempDirs

\* C4 as amended: at most one example has a running subprocess, only the
\* current example has one, every earlier example has its result collected,
\* and a temporary directory of an earlier example exists only when its
\* removal threw.
OneExampleAtATime ==
    /\ Cardinality(live) <= 1
    /\ live \subseteq {i}
    /\ tempDirs \subseteq ({i} \cup rmFailed)
    /\ \A j \in Earlier :
          /\ j <= Len(results)
          /\ j \notin live
          /\ j \in tempDirs => j \in rmFailed

\* the second example runs, the first one timed out and has been collected
SecondRunsAfterFirst ==
    /\ i = 2
    /\ live = {2}
    /\ Len(results) = 1
    /\ 1 \notin tempDirs

\* C5: the results pushed so far belong, position by position, to the
\* examples given, and when runExamples returns there is one per example.
ResultsFollowExamples ==
    /\ Len(results) <= Len(examples)
    /\ \A k \in 1..Len(results) : results[k].example = examples[k]
    /\ pc = "returned" => Len(results) = Len(examples)

\* runExamples returns three results, of different examples, passed and failed
ReturnedMixedResults ==
    /\ pc = "returned"
    /\ Len(results) = 3
    /\ results[1].passed
    /\ ~results[2].passed
    /\ results[2].example # results[3].example

\* C6: a subprocess that never exits by itself is killed by its timeout, and
\* once an example timed out the run does not end before every example has
\* its result.
TimeoutContainment ==
    /\ (pc = "await" /\ child = "running" /\ hangs) => timer
    /\ (timedOut /\ pc \in {"rejected", "returned", "exited"}) =>
           Len(results) = Len(examples)

\* the state of the j-th example in the run: pending before runExample has
\* created its directory, synthesizing until the unit is written, executing
\* from the call of executeWithTsx until its promise has been awaited, passed
\* or failed from the return of the try or the catch block on
Status(j) ==
    IF j < i THEN (IF results[j].passed THEN "passed" ELSE "failed")
    ELSE IF j > i THEN "pending"
    ELSE IF pc \in {"finally", "push"} THEN (IF cur[1].passed THEN "passed" ELSE "failed")
    ELSE IF pc = "catch" THEN "failed"
    ELSE IF pc = "synth" THEN "synthesizing"
    ELSE IF pc \in {"spawn", "await", "resume"} THEN "executing"
    ELSE "pending"

Rank(status) ==
    IF status = "pending" THEN 0
    ELSE IF status = "synthesizing" THEN 1
    ELSE IF status = "executing" THEN 2
    ELSE 3

\* C12: every step takes every example forward or nowhere in pending ->
\* synthesizing -> executing -> {passed | failed}; passed and failed are
\* never left; the subprocess of an example is spawned at most once in a run.
ForwardOnlySingleAttempt ==
    [][ /\ \A j \in 1..Len(examples') :
              /\ Rank(Status(j)') >= Rank(Status(j))
              /\ Rank(Status(j)) = 3 => Status(j)' = Status(j)
        /\ spawns' <= 1 ]_vars

\* the first example has failed after its subprocess ran, the second is
\* executing after one spawn, the third is pending
SecondExecutesOnce ==
    /\ Len(examples) >= 3
    /\ Status(1) = "failed"
    /\ Status(2) = "executing"
    /\ Status(3) = "pending"
    /\ spawns = 1
    /\ pc = "resume"


\* --------------------------------------------------- properties: cli

AllPassed == \A k \in 1..Len(results) : results[k].passed

\* C7 as stated: the status is 1 when no path was given and when a failure
\* was caught at the top level, and otherwise it is 0 exactly when every
\* result passed.
ExitOneWithoutPaths ==
    pc = "exited" =>
        IF Len(PathsOf(args)) = 0 \/ thrown # "none"
        THEN exitCode = Some(1)
        ELSE exitCode = Some(0) <=> AllPassed

\* C7 as amended: with no argument at all or with -h / --help the status is
\* 0; else it is 1 when no argument is a path and when a failure was caught
\* at the top level; otherwise it is 0 exactly when every result passed.
ExitStatus ==
    pc = "exited" =>
        IF WantsHelp(args) THEN exitCode = Some(0)
        ELSE IF Len(PathsOf(args)) = 0 \/ thrown # "none" THEN exitCode = Some(1)
        ELSE /\ exitCode \in {Some(0), Some(1)}
             /\ exitCode = Some(0) <=> AllPassed

\* the command line exits 0 after two examples ran and passed
ExitedZeroAfterRun ==
    /\ pc = "exited"
    /\ exitCode = Some(0)
    /\ Len(results) = 2
    /\ Len(errors) = 1

\* C8: parseFiles returns for every list of paths; a path that cannot be
\* read is a diagnostic in errors.
ParseFilesReturns == ~(pc = "rejected" /\ thrown = "statSync")

\* ------------------------------------- extractExpectedOutput, step by step

\* lines an example body is made of
SampleLines ==
    { << "f()" >>,
      << "f()", " ", "//", " ", "=>", " ", "1" >>,
      << "//", "->", "2" >>,
      << "//", " ", "output:", " ", "1", " ", "//", "=>", "2" >>,
      << "//", "=>" >>,
      << "//", " ", "=>", " ", " " >> }

InitAnnotator ==
    /\ lines \in SeqsUpTo(SampleLines, MaxLines)
    /\ ln = 1
    /\ codeLines = <<>>
    /\ expected = Undefined
    /\ pc = "annotate"
    /\ args = <<>>
    /\ examples = <<>>
    /\ dotDir = FALSE
    /\ CliIdle
    /\ SynthesizerIdle
    /\ RunnerIdle
    /\ ParseFileIdle

\* one iteration of the loop over the lines
AnnotateStep ==
    /\ pc = "annotate"
    /\ ln <= Len(lines)
    /\ LET acc == AnnotateLine([code |-> codeLines, expected |-> expected], lines[ln]) IN
          /\ codeLines' = acc.code
          /\ expected' = acc.expected
    /\ ln' = ln + 1
    /\ UNCHANGED << pc, lines, examples >>
    /\ UNCHANGED << cliVars, runnerVars, parseFileVars, synthesizerVars >>

\* return { code: codeLines.join("\n"), expected }
AnnotateReturn ==
    /\ pc = "annotate"
    /\ ln > Len(lines)
    /\ pc' = "annotated"
    /\ UNCHANGED << lines, ln, codeLines, expected, examples >>
    /\ UNCHANGED << cliVars, runnerVars, parseFileVars, synthesizerVars >>

NextAnnotator == AnnotateStep \/ AnnotateReturn

SpecAnnotator == InitAnnotator /\ [][NextAnnotator]_vars

\* positions of the lines that carry an output annotation
Annotated == {k \in 1..Len(lines) : OutputMatch(lines[k]) # Undefined}

FirstAnnotated == CHOOSE k \in Annotated : \A j \in Annotated : k <= j

LastAnnotated == CHOOSE k \in Annotated : \A j \in Annotated : k >= j

\* C9 as stated: expectedOutput is the annotation of the first annotated
\* line, and the code returned is the code given.
FirstAnnotationWins ==
    pc = "annotated" =>
        /\ codeLines = lines
        /\ expected = IF Annotated = {} THEN Undefined
                      ELSE OutputMatch(lines[FirstAnnotated])

\* C9 as amended: expectedOutput is the annotation of the last annotated
\* line (undefined when no line is annotated), and the code returned is the
\* code given.
LastAnnotationWins ==
    pc = "annotated" =>
        /\ codeLines = lines
        /\ expected = IF Annotated = {} THEN Undefined
                      ELSE OutputMatch(lines[LastAnnotated])

\* a body with two annotated lines of different values has been processed
TwoAnnotationsProcessed ==
    /\ pc = "annotated"
    /\ Cardinality(Annotated) >= 2
    /\ OutputMatch(lines[FirstAnnotated]) # OutputMatch(lines[LastAnnotated])
    /\ expected = Some(<< "2" >>)

\* ------------------------------------------------ parseFile, step by step

\* one raw line of a comment: " * <word>"
RawLine(word) == << " ", "*", " ", word >>

\* what a JSDoc comment can look like: its owner and its example blocks
SampleComments ==
    { [owner |-> Some("foo"),
       body  |-> [fenced |-> << << RawLine("foo(1)") >>, << RawLine("foo(2)") >> >>,
                  indented |-> <<>>]],
      [owner |-> Some("foo"),
       body  |-> [fenced |-> << << RawLine("foo(3)") >> >>, indented |-> <<>>]],
      [owner |-> Some("foo_example1"),
       body  |-> [fenced |-> <<>>,
                  indented |-> << << RawLine("bar()") >>, << << " ", "*", " ", " " >> >> >>]],
      [owner |-> Undefined,
       body  |-> [fenced |-> << << RawLine("baz(1)") >>, << RawLine("baz(2)") >>,
                                << RawLine("baz(3)") >> >>,
                  indented |-> <<>>]],
      [owner |-> Undefined,
       body  |-> [fenced |-> <<>>, indented |-> <<>>]] }

\* the comment at position k of a text starts on line 4k - 3
SourceOf(shapes) ==
    [k \in 1..Len(shapes) |->
        [line |-> 4 * k - 3, owner |-> shapes[k].owner, body |-> shapes[k].body]]

InitParseFile ==
    /\ source \in {SourceOf(shapes) : shapes \in SeqsUpTo(SampleComments, MaxComments)}
    /\ cm = 1
    /\ origin = <<>>
    /\ examples = <<>>
    /\ pc = "parseFile"
    /\ args = <<>>
    /\ dotDir = FALSE
    /\ CliIdle
    /\ SynthesizerIdle
    /\ RunnerIdle
    /\ AnnotatorIdle

\* one iteration of the loop over the comments
ParseComment ==
    /\ pc = "parseFile"
    /\ cm <= Len(source)
    /\ LET pushed == ExamplesOfComment("f.ts", extractJSDocComments(source)[cm]) IN
          /\ examples' = examples \o pushed
          /\ origin' = origin \o [k \in 1..Len(pushed) |-> cm]
    /\ cm' = cm + 1
    /\ UNCHANGED << pc, source >>
    /\ UNCHANGED << cliVars, runnerVars, annotatorVars, synthesizerVars >>

\* return { examples, errors }
ParseFileReturn ==
    /\ pc = "parseFile"
    /\ cm > Len(source)
    /\ pc' = "parsed"
    /\ UNCHANGED << source, cm, origin, examples >>
    /\ UNCHANGED << cliVars, runnerVars, annotatorVars, synthesizerVars >>

NextParseFile == ParseComment \/ ParseFileReturn

SpecParseFile == InitParseFile /\ [][NextParseFile]_vars

\* C10 as stated: no two examples of the list of one file have the same name.
NamesUniqueInFile ==
    \A a, b \in 1..Len(examples) : a # b => examples[a].name # examples[b].name

\* C10 as amended: no two examples that come from the same comment have the
\* same name.
NamesUniqueInComment ==
    \A a, b \in 1..Len(examples) :
        (a # b /\ origin[a] = origin[b]) => examples[a].name # examples[b].name

\* a file with an anonymous comment of three examples and another comment of
\* two has been parsed
NumberedExamplesParsed ==
    /\ pc = "parsed"
    /\ \E a \in 1..Len(examples) : examples[a].name = "anonymous_1_example3"
    /\ \E a \in 1..Len(examples) : examples[a].name = "foo_example2"

\* ------------------------------------------- wrapExampleCode, step by step

\* sample lines of an example, as lexemes
SampleCode ==
    { << "import", " ", "{", " ", "add", " ", "}", " ", "from", " ", "\"", ".", "/", "math.js", "\"" >>,
      << " ", "import", " ", "{", " ", "chunkArray", " ", "}", " ", "from", " ", "'", "..", "/", "lib", "/", "utils.js", "'" >>,
      << "import", " ", "{", " ", "add", ",", " ", "multiply", " ", "}", " ", "from", " ", "\"", "example-lib", "\"" >>,
      << "import", " ", "\"", ".", "/", "setup.js", "\"" >>,
      << "const", " ", "r", " ", "=", " ", "add", "(", ")" >>,
      << "imports", ".", "push", "(", ")" >> }

\* the origin files of the examples: two readable ones, and one that is gone
\* when the unit is synthesized
SampleFiles == { << "src", "utils.ts" >>, << "src", "math.ts" >>, << "gone.ts" >> }

\* wrapExampleCode is called with any example of up to MaxLines lines
InitSynth ==
    /\ \E code \in SeqsUpTo(SampleCode, MaxLines), file \in SampleFiles :
          example = [file |-> file, line |-> 1, name |-> "f_example", code |-> code]
    /\ sl = 1
    /\ imports = <<>>
    /\ rest = <<>>
    /\ unit = Undefined
    /\ pc = "extractImports"
    /\ args = <<>>
    /\ examples = <<>>
    /\ dotDir = FALSE
    /\ CliIdle
    /\ RunnerIdle
    /\ AnnotatorIdle
    /\ ParseFileIdle

\* extractImports: one iteration of the loop over the lines
ExtractImportsStep ==
    /\ pc = "extractImports"
    /\ sl <= Len(example.code)
    /\ LET acc == SeparateLine([imports |-> imports, rest |-> rest],
                               example.code[sl], SourceDir(example.file)) IN
          /\ imports' = acc.imports
          /\ rest' = acc.rest
    /\ sl' = sl + 1
    /\ UNCHANGED << pc, examples, example, unit >>
    /\ UNCHANGED << cliVars, runnerVars, annotatorVars, parseFileVars >>

\* extractImports returns, wrapExampleCode reads the export names and returns
\* the text
WrapReturn ==
    /\ pc = "extractImports"
    /\ sl > Len(example.code)
    /\ unit' = Some(UnitOf(example, [imports |-> imports, rest |-> rest]))
    /\ pc' = "wrapped"
    /\ UNCHANGED << examples, example, sl, imports, rest >>
    /\ UNCHANGED << cliVars, runnerVars, annotatorVars, parseFileVars >>

NextSynth == ExtractImportsStep \/ WrapReturn

SpecSynth == InitSynth /\ [][NextSynth]_vars

\* the target of an import statement: what stands between its first two
\* quotes
ImportTarget(line) ==
    LET q == SkipToQuote(line, 1)
        e == SkipToQuote(line, q + 1) IN
    IF e > Len(line) THEN <<>> ELSE SubSeq(line, q + 1, e - 1)

\* the target begins with ./ or ../
IsRelative(target) ==
    Len(target) >= 2 /\ target[1] \in {".", ".."} /\ target[2] = "/"

\* the line with another target
WithTarget(line, target) ==
    LET q == SkipToQuote(line, 1)
        e == SkipToQuote(line, q + 1) IN
    SubSeq(line, 1, q) \o target \o SubSeq(line, e, Len(line))

\* C11: in the synthesized unit every import statement of the example with a
\* relative target has the target replaced by the absolute path resolved
\* against the directory of the origin file, so that no import of the unit
\* has a relative target; the other import statements are as written; the
\* import lines keep their order and so do the remaining lines.
RelativeImportsResolved ==
    unit # Undefined =>
        LET u == unit[1]
            ins == SelectSeq(example.code, IsImportLine)
            others == SelectSeq(example.code, LAMBDA l : ~IsImportLine(l)) IN
        /\ Len(u.imports) = Len(ins)
        /\ \A k \in 1..Len(ins) :
              /\ ~IsRelative(ImportTarget(u.imports[k]))
              /\ u.imports[k] =
                    IF IsRelative(ImportTarget(ins[k]))
                    THEN WithTarget(ins[k], ResolvedTarget(SourceDir(example.file),
                                                           ImportTarget(ins[k])))
                    ELSE ins[k]
        /\ u.body = [k \in 1..Len(others) |-> << " ", " " >> \o others[k]]

\* the names an import statement binds: the identifiers of its clause, which
\* stands before "from" (none in a side-effect import)
BoundNames(line) ==
    IF \A k \in 1..Len(line) : line[k] # "from" THEN <<>>
    ELSE LET f == CHOOSE k \in 1..Len(line) :
                      line[k] = "from" /\ \A j \in 1..(k - 1) : line[j] # "from" IN
         SelectSeq(SubSeq(line, 1, f - 1),
                   LAMBDA t : t \notin {"import", " ", "{", "}", ","})

RECURSIVE BoundByImports(_, _)
BoundByImports(importLines, k) ==
    IF k > Len(importLines) THEN <<>>
    ELSE BoundNames(importLines[k]) \o BoundByImports(importLines, k + 1)

\* the top-level declarations of a unit, in text order
Declared(u) ==
    << "_module" >> \o BoundByImports(u.imports, 1) \o u.destructure \o u.functions

NoRepeat(names) ==
    \A a, b \in 1..Len(names) : a # b => names[a] # names[b]

\* C13: in every synthesized unit each top-level identifier (the names bound
\* by the imports of the example, the destructured export names, _module,
\* assert, assertEqual, __runExample) is declared at most once, also when the
\* example imports a name that its origin file exports; an example whose own
\* imports bind a name twice is left aside.
DeclaredAtMostOnce ==
    (unit # Undefined /\ NoRepeat(BoundByImports(unit[1].imports, 1)))
        => NoRepeat(Declared(unit[1]))

====
